---- MODULE Spec2Model ----
(***************************************************************************)
(* Prefix-sum fermion-to-qubit transforms of OpenFermion:                  *)
(*   transforms/_bravyi_kitaev.py, _parity_transform.py,                   *)
(*   _prefix_sums.py, _prefix_sum_transform.py                             *)
(*                                                                         *)
(* Three specifications share this module:                                 *)
(*   Spec      one call of bravyi_kitaev / parity_transform, stepped term  *)
(*             by term and ladder operator by ladder operator;             *)
(*   SpecSets  the occupation encoding the index sets describe: a register *)
(*             of qubits updated through update_set and read through       *)
(*             parity_set / occupation_set;                                *)
(*   SpecLoop  the three Bravyi-Kitaev index-set loops, one iteration per  *)
(*             step.                                                       *)
(***************************************************************************)
EXTENDS Integers, Sequences, FiniteSets

VARIABLES
    \* ---- one transform call (Spec)
    enc,              \* "bk" = bravyi_kitaev, "parity" = parity_transform
    operator,         \* the FermionOperator: sequence of terms (dict order)
    n_arg,            \* the n_qubits argument, None when omitted
    n_qubits,         \* the local n_qubits after defaulting
    pc,               \* position of the call
    error,            \* exception that left the call, "" when none
    terms_left,       \* terms the generator of prefix_sum_transform still holds
    ladder_left,      \* ladder operators of the current term not yet folded
    product,          \* inline_product's seed for the current term
    total,            \* inline_sum's seed
    calls,            \* number of index-set function calls made so far
    update_set_,      \* the three locals of the last _transform_ladder_operator
    occupation_set_,
    parity_set_,
    cur_index,        \* its index, -1 before the first ladder operator
    \* ---- the encoded register (SpecSets)
    occ,              \* occupation number of every mode
    qubits,           \* value stored by every qubit
    \* ---- one index-set loop (SpecLoop)
    fn,               \* which function runs
    l_index,          \* its index argument
    l_n,              \* its n_qubits argument (update_set only)
    v,                \* the local `index` (1-based)
    parent,           \* the local `parent` (occupation_set only)
    indices,          \* the local `indices`
    iters,            \* loop iterations executed
    lpc               \* "loop" or "returned"

callVars == <<enc, operator, n_arg, n_qubits, pc, error, terms_left,
              ladder_left, product, total, calls, update_set_,
              occupation_set_, parity_set_, cur_index>>
setVars  == <<occ, qubits>>
loopVars == <<fn, l_index, l_n, v, parent, indices, iters, lpc>>
vars     == <<callVars, setVars, loopVars>>

----------------------------------------------------------------------------
\* Bounds of the model.
MaxMode    == 4      \* modes 0..MaxMode appear in operators
MaxQubits  == 6      \* n_qubits arguments 0..MaxQubits
MaxTermLen == 2      \* ladder operators per term
MaxRegister == 6     \* register sizes 1..MaxRegister in SpecSets
MaxLoopArg == 17     \* index and n_qubits arguments 0..MaxLoopArg in SpecLoop
MaxIters   == 8      \* cap on counted loop iterations

None  == -1          \* the omitted n_qubits argument
RAISE == 1
LOWER == 0

----------------------------------------------------------------------------
\* Python integer arithmetic used by the bit tricks.

RECURSIVE BitAnd(_, _)
\* a & b on unbounded two's-complement integers
BitAnd(a, b) ==
    IF a = 0 \/ b = 0 THEN 0
    ELSE IF a = -1 THEN b
    ELSE IF b = -1 THEN a
    ELSE (a % 2) * (b % 2) + 2 * BitAnd(a \div 2, b \div 2)

RECURSIVE BitLength(_)
\* int.bit_length() of a non-negative integer
BitLength(x) == IF x = 0 THEN 0 ELSE 1 + BitLength(x \div 2)

Max(a, b) == IF a >= b THEN a ELSE b

----------------------------------------------------------------------------
\* Bravyi-Kitaev index sets: the loop pieces, shared by the operators below
\* and by the stepped loops of SpecLoop.

\* index += 1
OneBased(index) == index + 1

\* index += index & -index
AddLowestBit(x) == x + BitAnd(x, -x)

\* index &= index - 1
StripLowestBit(x) == BitAnd(x, x - 1)

\* seeded fault: the loop stops one qubit early
UpdateCondStrict(x, n) == x < n

\* while index <= n_qubits
UpdateCond(x, n) == x <= n

\* seeded fault: the parent taken from the wrong neighbour
OccupationParentAbove(x) == BitAnd(x, x + 1)

\* parent = index & (index - 1), index already 1-based
OccupationParent(x) == BitAnd(x, x - 1)

\* index -= 1, the value the occupation loop starts from
OccupationStart(x) == x - 1

\* while index != parent
OccupationCond(x, p) == x # p

\* while index > 0
ParityCond(x) == x > 0

RECURSIVE UpdateLoop(_, _, _)
UpdateLoop(x, n, acc) ==
    IF UpdateCond(x, n) THEN UpdateLoop(AddLowestBit(x), n, acc \cup {x - 1})
    ELSE acc

update_set_bravyi_kitaev(index, n) == UpdateLoop(OneBased(index), n, {})

RECURSIVE OccupationLoop(_, _, _)
OccupationLoop(x, p, acc) ==
    IF OccupationCond(x, p)
    THEN OccupationLoop(StripLowestBit(x), p, acc \cup {x - 1})
    ELSE acc

occupation_set_bravyi_kitaev(index) ==
    LET one == OneBased(index)
    IN  OccupationLoop(OccupationStart(one), OccupationParent(one), {one - 1})

RECURSIVE ParityLoop(_, _)
ParityLoop(x, acc) ==
    IF ParityCond(x) THEN ParityLoop(StripLowestBit(x), acc \cup {x - 1})
    ELSE acc

parity_set_bravyi_kitaev(index) == ParityLoop(OneBased(index), {})

----------------------------------------------------------------------------
\* Python values the index-set functions return: a set or a range.  Both
\* iterate over elems; only a set supports the operators - and ^.

PySet(S)       == [kind |-> "set", elems |-> S]
PyRange(a, b)  == [kind |-> "range", elems |-> a..(b - 1)]
PyTypeError    == [kind |-> "TypeError", elems |-> {}]

\* a - b
PySub(a, b) ==
    IF a.kind = "set" /\ b.kind = "set" THEN PySet(a.elems \ b.elems)
    ELSE PyTypeError

\* a ^ b
PyXor(a, b) ==
    IF a.kind = "set" /\ b.kind = "set"
    THEN PySet((a.elems \ b.elems) \cup (b.elems \ a.elems))
    ELSE PyTypeError

\* seeded fault: the range starts after index
update_set_parity_after(index, n) == PyRange(index + 1, n)

\* Parity-encoding index sets.
update_set_parity(index, n) == PyRange(index, n)

occupation_set_parity(index) ==
    IF index = 0 THEN PySet({index}) ELSE PySet({index, index + 1})

parity_set_parity(index) == PySet({index})

\* The three functions an entry point hands to prefix_sum_transform.
update_set(e, index, n) ==
    IF e = "bk" THEN PySet(update_set_bravyi_kitaev(index, n))
    ELSE update_set_parity(index, n)

occupation_set(e, index) ==
    IF e = "bk" THEN PySet(occupation_set_bravyi_kitaev(index))
    ELSE occupation_set_parity(index)

parity_set(e, index) ==
    IF e = "bk" THEN PySet(parity_set_bravyi_kitaev(index))
    ELSE parity_set_parity(index)

----------------------------------------------------------------------------
\* Coefficients: complex numbers <<re, im>> counted in units of 1/Unit, so
\* that the halves of MaxTermLen ladder operators multiply exactly.

RECURSIVE Pow2(_)
Pow2(k) == IF k = 0 THEN 1 ELSE 2 * Pow2(k - 1)

Unit == Pow2(MaxTermLen)

CZero == <<0, 0>>
COne  == <<Unit, 0>>
\* the literal .5
CHalf == <<Unit \div 2, 0>>
\* the literal -.5j
CMinusHalfJ == <<0, 0 - (Unit \div 2)>>

CAdd(a, b) == <<a[1] + b[1], a[2] + b[2]>>
CNeg(a)    == <<0 - a[1], 0 - a[2]>>
CMul(a, b) == <<(a[1] * b[1] - a[2] * b[2]) \div Unit,
                (a[1] * b[2] + a[2] * b[1]) \div Unit>>

RECURSIVE IPow(_, _)
\* c * i^k
IPow(c, k) == IF k = 0 THEN c ELSE IPow(<<0 - c[2], c[1]>>, k - 1)

----------------------------------------------------------------------------
\* The qubit-operator algebra (openfermion.ops.QubitOperator).  A Pauli term
\* is the set of its (qubit, letter) pairs; a qubit operator is a set of
\* <<term, coefficient>> pairs holding no zero coefficient.

\* single-qubit product l * r as <<letter, k>>, meaning i^k * letter
PauliMul(l, r) ==
    IF l = "I" THEN <<r, 0>>
    ELSE IF r = "I" THEN <<l, 0>>
    ELSE IF l = r THEN <<"I", 0>>
    ELSE IF <<l, r>> = <<"X", "Y">> THEN <<"Z", 1>>
    ELSE IF <<l, r>> = <<"Y", "Z">> THEN <<"X", 1>>
    ELSE IF <<l, r>> = <<"Z", "X">> THEN <<"Y", 1>>
    ELSE IF <<l, r>> = <<"Y", "X">> THEN <<"Z", 3>>
    ELSE IF <<l, r>> = <<"Z", "Y">> THEN <<"X", 3>>
    ELSE <<"Y", 3>>

LetterAt(t, q) ==
    IF \E p \in t : p[1] = q THEN (CHOOSE p \in t : p[1] = q)[2] ELSE "I"

TermQubits(t) == {p[1] : p \in t}

RECURSIVE PhaseSum(_, _, _)
PhaseSum(Q, a, b) ==
    IF Q = {} THEN 0
    ELSE LET q == CHOOSE x \in Q : TRUE
         IN  (PauliMul(LetterAt(a, q), LetterAt(b, q))[2]
              + PhaseSum(Q \ {q}, a, b)) % 4

\* product of two Pauli terms as <<term, k>>, meaning i^k * term
TermMul(a, b) ==
    LET Q == TermQubits(a) \cup TermQubits(b)
        all == {<<q, PauliMul(LetterAt(a, q), LetterAt(b, q))[1]>> : q \in Q}
    IN  <<{p \in all : p[2] # "I"}, PhaseSum(Q, a, b)>>

QTerms(A) == {p[1] : p \in A}

CoefOf(A, t) ==
    IF \E p \in A : p[1] = t THEN (CHOOSE p \in A : p[1] = t)[2] ELSE CZero

\* drop the terms whose coefficient is zero
Canonical(P) == {p \in P : p[2] # CZero}

\* QubitOperator() and QubitOperator(term, coefficient)
QubitOperatorZero == {}
QubitOperator(term, c) == {<<term, c>>}

\* A += B
QAdd(A, B) ==
    Canonical({<<t, CAdd(CoefOf(A, t), CoefOf(B, t))>> :
                  t \in QTerms(A) \cup QTerms(B)})

\* A -= B
QSub(A, B) ==
    Canonical({<<t, CAdd(CoefOf(A, t), CNeg(CoefOf(B, t)))>> :
                  t \in QTerms(A) \cup QTerms(B)})

RECURSIVE CSum(_, _)
\* sum of the coefficients the pairs in P contribute to term t
CSum(P, t) ==
    IF P = {} THEN CZero
    ELSE LET p == CHOOSE x \in P : TRUE
             m == TermMul(p[1][1], p[2][1])
             c == IF m[1] = t THEN IPow(CMul(p[1][2], p[2][2]), m[2])
                  ELSE CZero
         IN  CAdd(c, CSum(P \ {p}, t))

\* A *= B
QMul(A, B) ==
    LET P == A \X B
    IN  Canonical({<<t, CSum(P, t)>> :
                      t \in {TermMul(p[1][1], p[2][1])[1] : p \in P}})

Letters(S, letter) == {<<i, letter>> : i \in S}

----------------------------------------------------------------------------
\* Fermionic operators (openfermion.ops.FermionOperator): a sequence of
\* terms in dictionary order, each a sequence of <<index, action>> pairs
\* with a coefficient.

LadderOps == (0..MaxMode) \X {RAISE, LOWER}

TermSeqs == UNION {[1..k -> LadderOps] : k \in 0..MaxTermLen}

FermionTerm(ops, c) == [ops |-> ops, coef |-> c]

\* a_p a_q^ + a_q^ a_p, each term with coefficient 1
Anticommutator(p, q) ==
    << FermionTerm(<< <<p, LOWER>>, <<q, RAISE>> >>, COne),
       FermionTerm(<< <<q, RAISE>>, <<p, LOWER>> >>, COne) >>

Operators ==
    {<< >>}
    \cup {<<FermionTerm(t, COne)>> : t \in TermSeqs}
    \cup {Anticommutator(p, q) : p \in 0..MaxMode, q \in 0..MaxMode}

\* openfermion.utils.count_qubits: highest mode index referenced, plus one
count_qubits(op) ==
    LET used == {op[i].ops[j][1] + 1 : <<i, j>> \in
                    {x \in (1..Len(op)) \X (1..MaxTermLen + 1) :
                        x[2] <= Len(op[x[1]].ops)}}
    IN  IF used = {} THEN 0
        ELSE CHOOSE m \in used : \A u \in used : u <= m

----------------------------------------------------------------------------
\* _transform_ladder_operator: the qubit operator of one ladder operator, or
\* the TypeError of a set operator applied to a value that is not a set.

\* seeded fault: the branches of the action swapped
CombineSwapped(action, even, odd) ==
    IF action = RAISE THEN QSub(even, odd) ELSE QAdd(even, odd)

\* transformed_operator += / -= transformed_majorana_difference
Combine(action, even, odd) ==
    IF action = RAISE THEN QAdd(even, odd) ELSE QSub(even, odd)

\* update_set_ - {index}
XGroup(index, upd) == PySub(upd, PySet({index}))

\* (parity_set_ ^ occupation_set_) - {index}
ZGroup(index, par, occn) == PySub(PyXor(par, occn), PySet({index}))

\* parity_set_ = set() if index == 0 else parity_set(index - 1)
ParityBefore(e, index) ==
    IF index = 0 THEN PySet({}) ELSE parity_set(e, index - 1)

EvenTerm(upd, par) == Letters(upd.elems, "X") \cup Letters(par.elems, "Z")

OddTerm(index, xg, zg) ==
    {<<index, "Y">>} \cup Letters(xg.elems, "X") \cup Letters(zg.elems, "Z")

transform_ladder_operator(ladder, e, n) ==
    LET index  == ladder[1]
        action == ladder[2]
        upd    == update_set(e, index, n)
        occn   == occupation_set(e, index)
        par    == ParityBefore(e, index)
        even   == QubitOperator(EvenTerm(upd, par), CHalf)
        xg     == XGroup(index, upd)
        zg     == ZGroup(index, par, occn)
    IN  IF xg.kind = "TypeError" \/ zg.kind = "TypeError"
        THEN [kind |-> "TypeError", op |-> QubitOperatorZero]
        ELSE [kind |-> "ok",
              op   |-> Combine(action, even,
                               QubitOperator(OddTerm(index, xg, zg),
                                             CMinusHalfJ))]

----------------------------------------------------------------------------
\* One call of an entry point.

\* seeded fault: the comparison made inclusive
InvalidQubitsInclusive(n, op) == n <= count_qubits(op)

\* if n_qubits < count_qubits(operator): raise ValueError
InvalidQubits(n, op) == n < count_qubits(op)

\* if n_qubits is None: n_qubits = count_qubits(operator)
DefaultQubits(arg, op) == IF arg = None THEN count_qubits(op) ELSE arg

SetsIdle ==
    /\ occ = <<>>
    /\ qubits = <<>>

LoopIdle ==
    /\ fn = "none"
    /\ l_index = 0
    /\ l_n = 0
    /\ v = 0
    /\ parent = 0
    /\ indices = {}
    /\ iters = 0
    /\ lpc = "idle"

CallIdle ==
    /\ enc = "none"
    /\ operator = << >>
    /\ n_arg = None
    /\ n_qubits = 0
    /\ pc = "idle"
    /\ error = ""
    /\ terms_left = << >>
    /\ ladder_left = << >>
    /\ product = QubitOperatorZero
    /\ total = QubitOperatorZero
    /\ calls = 0
    /\ update_set_ = PySet({})
    /\ occupation_set_ = PySet({})
    /\ parity_set_ = PySet({})
    /\ cur_index = -1

Init ==
    /\ enc \in {"bk", "parity"}
    /\ operator \in Operators
    /\ n_arg \in {None} \cup (0..MaxQubits)
    /\ n_qubits = 0
    /\ pc = "entry"
    /\ error = ""
    /\ terms_left = << >>
    /\ ladder_left = << >>
    /\ product = QubitOperatorZero
    /\ total = QubitOperatorZero
    /\ calls = 0
    /\ update_set_ = PySet({})
    /\ occupation_set_ = PySet({})
    /\ parity_set_ = PySet({})
    /\ cur_index = -1
    /\ SetsIdle
    /\ LoopIdle

\* bravyi_kitaev / parity_transform up to the call of prefix_sum_transform
Validate ==
    /\ pc = "entry"
    /\ n_qubits' = DefaultQubits(n_arg, operator)
    /\ IF InvalidQubits(n_qubits', operator)
       THEN /\ pc' = "raised"
            /\ error' = "ValueError"
            /\ UNCHANGED terms_left
       ELSE /\ pc' = "sum"
            /\ terms_left' = operator
            /\ UNCHANGED error
    /\ UNCHANGED <<enc, operator, n_arg, ladder_left, product, total, calls,
                   update_set_, occupation_set_, parity_set_, cur_index>>
    /\ UNCHANGED <<setVars, loopVars>>

\* inline_sum pulls the next term: _transform_operator_term seeds its product
NextTerm ==
    /\ pc = "sum"
    /\ terms_left # << >>
    /\ product' = QubitOperator({}, Head(terms_left).coef)
    /\ ladder_left' = Head(terms_left).ops
    /\ terms_left' = Tail(terms_left)
    /\ pc' = "product"
    /\ UNCHANGED <<enc, operator, n_arg, n_qubits, error, total, calls,
                   update_set_, occupation_set_, parity_set_, cur_index>>
    /\ UNCHANGED <<setVars, loopVars>>

\* inline_product pulls the next factor: seed *= _transform_ladder_operator
LadderStep ==
    /\ pc = "product"
    /\ ladder_left # << >>
    /\ LET ladder == Head(ladder_left)
           r == transform_ladder_operator(ladder, enc, n_qubits)
       IN  /\ cur_index' = ladder[1]
           /\ update_set_' = update_set(enc, ladder[1], n_qubits)
           /\ occupation_set_' = occupation_set(enc, ladder[1])
           /\ parity_set_' = ParityBefore(enc, ladder[1])
           /\ calls' = calls + (IF ladder[1] = 0 THEN 2 ELSE 3)
           /\ IF r.kind = "TypeError"
              THEN /\ pc' = "raised"
                   /\ error' = "TypeError"
                   /\ UNCHANGED <<product, ladder_left>>
              ELSE /\ product' = QMul(product, r.op)
                   /\ ladder_left' = Tail(ladder_left)
                   /\ UNCHANGED <<pc, error>>
    /\ UNCHANGED <<enc, operator, n_arg, n_qubits, terms_left, total>>
    /\ UNCHANGED <<setVars, loopVars>>

\* the term's factors are exhausted: inline_sum does seed += product
TermDone ==
    /\ pc = "product"
    /\ ladder_left = << >>
    /\ total' = QAdd(total, product)
    /\ pc' = "sum"
    /\ UNCHANGED <<enc, operator, n_arg, n_qubits, error, terms_left,
                   ladder_left, product, calls, update_set_, occupation_set_,
                   parity_set_, cur_index>>
    /\ UNCHANGED <<setVars, loopVars>>

\* the terms are exhausted: the entry point returns the sum
Return ==
    /\ pc = "sum"
    /\ terms_left = << >>
    /\ pc' = "done"
    /\ UNCHANGED <<enc, operator, n_arg, n_qubits, error, terms_left,
                   ladder_left, product, total, calls, update_set_,
                   occupation_set_, parity_set_, cur_index>>
    /\ UNCHANGED <<setVars, loopVars>>

Next ==
    \/ Validate
    \/ NextTerm
    \/ LadderStep
    \/ TermDone
    \/ Return

Spec == Init /\ [][Next]_vars

----------------------------------------------------------------------------
\* Properties of one call (checked under Spec).

Finished == pc \in {"done", "raised"}

ExplicitAndTooSmall == n_arg # None /\ n_arg < count_qubits(operator)

\* C1: the ValueError is raised exactly when n_qubits is supplied and is
\* strictly less than count_qubits(operator); when it is raised no index-set
\* function has been called and no term has been transformed.
C1_ValueErrorExactly ==
    pc # "entry" =>
        /\ (error = "ValueError") <=> ExplicitAndTooSmall
        /\ error = "ValueError" =>
              /\ pc = "raised"
              /\ calls = 0
              /\ cur_index = -1
              /\ terms_left = << >>
              /\ product = QubitOperatorZero
              /\ total = QubitOperatorZero

C1_Witness ==
    /\ pc = "raised"
    /\ error = "ValueError"
    /\ n_arg # None
    /\ n_arg + 1 = count_qubits(operator)

\* the other side of C1: a call with n_qubits equal to the mode count returns
C1_WitnessAccepted ==
    /\ pc = "done"
    /\ n_arg = count_qubits(operator)
    /\ n_arg > 0

\* the sets the last ladder-operator transform obtained
ObtainedSets ==
    update_set_.elems \cup occupation_set_.elems \cup parity_set_.elems

\* C4: every set the ladder-operator transform obtains from an index-set
\* function holds only qubit indices q with 0 <= q < n_qubits.
C4_SetsInRange ==
    cur_index >= 0 => \A q \in ObtainedSets : 0 <= q /\ q < n_qubits

\* C5 as stated: update_set_parity(index, n_qubits) is {index+1..n_qubits-1},
\* of size n_qubits - index - 1.
C5_StrictlyGreater ==
    (enc = "parity" /\ cur_index >= 0) =>
        /\ update_set_.elems = (cur_index + 1)..(n_qubits - 1)
        /\ Cardinality(update_set_.elems) = n_qubits - cur_index - 1

\* C5 amended: update_set_parity(index, n_qubits) holds exactly the qubits
\* index..n_qubits-1, index itself included, n_qubits - index of them.
C5_FromIndex ==
    (enc = "parity" /\ cur_index >= 0) =>
        /\ update_set_.elems = cur_index..(n_qubits - 1)
        /\ Cardinality(update_set_.elems) = n_qubits - cur_index
        /\ cur_index \in update_set_.elems

C5_Witness ==
    /\ enc = "parity"
    /\ cur_index = 1
    /\ n_qubits = 4
    /\ update_set_.elems = {1, 2, 3}

Identity == QubitOperator({}, COne)

\* C6: under either encoding a_p a_q^ + a_q^ a_p transforms to the identity
\* with coefficient 1 when p = q and to the zero operator when p # q.
C6_Anticommutation ==
    \A p \in 0..MaxMode : \A q \in 0..MaxMode :
        (operator = Anticommutator(p, q) /\ Finished
            /\ n_qubits > p /\ n_qubits > q) =>
            /\ pc = "done"
            /\ total = IF p = q THEN Identity ELSE QubitOperatorZero

\* the Bravyi-Kitaev half of C6
AnticommutationBK == enc = "bk" => C6_Anticommutation

CreateZero == <<FermionTerm(<< <<0, RAISE>> >>, COne)>>

Scenario1 ==
    /\ enc = "bk"
    /\ operator = CreateZero
    /\ n_arg = 1
    /\ pc = "done"

\* C7 as stated: bravyi_kitaev(a0^, n_qubits=1) is 0.5 * I - 0.5i * Y0.
C7_IdentityAndY ==
    Scenario1 => total = {<<{}, CHalf>>, <<{<<0, "Y">>}, CMinusHalfJ>>}

\* C7 amended: bravyi_kitaev(a0^, n_qubits=1) is 0.5 * X0 - 0.5i * Y0.
C7_XAndY ==
    Scenario1 =>
        total = {<<{<<0, "X">>}, CHalf>>, <<{<<0, "Y">>}, CMinusHalfJ>>}

C7_Witness == Scenario1 /\ Cardinality(total) = 2

\* C8: apart from the ValueError of the qubit count no call raises: every
\* set operation of the ladder-operator transform is defined for the values
\* the bound index-set functions return.
C8_NoOtherError ==
    /\ error \in {"", "ValueError"}
    /\ (pc = "raised" => error = "ValueError")

\* C9: the Pauli strings built for one ladder operator carry at most one
\* letter per qubit: update_set(index) and parity_set(index-1) are disjoint,
\* and {index}, update_set(index) \ {index} and
\* (parity_set(index-1) (+) occupation_set(index)) \ {index} are pairwise
\* disjoint.
C9_OneLetterPerQubit ==
    cur_index >= 0 =>
        LET U == update_set_.elems
            P == parity_set_.elems
            O == occupation_set_.elems
            X == U \ {cur_index}
            Z == ((P \ O) \cup (O \ P)) \ {cur_index}
        IN  /\ U \cap P = {}
            /\ {cur_index} \cap X = {}
            /\ {cur_index} \cap Z = {}
            /\ X \cap Z = {}

\* the Bravyi-Kitaev half of C4 and C9
IndexSetsBK == enc = "bk" => (C4_SetsInRange /\ C9_OneLetterPerQubit)

----------------------------------------------------------------------------
\* The encoding the index sets describe (SpecSets): a register of n_qubits
\* qubits over n_qubits modes.  Flipping the occupancy of a mode flips the
\* qubits of its update set ("the bits that need to be updated upon flipping
\* the occupancy of a mode").

InitSets ==
    /\ enc \in {"bk", "parity"}
    /\ n_qubits \in 1..MaxRegister
    /\ occ = [m \in 0..(n_qubits - 1) |-> 0]
    /\ qubits = [j \in 0..(n_qubits - 1) |-> 0]
    /\ operator = << >>
    /\ n_arg = None
    /\ pc = "idle"
    /\ error = ""
    /\ terms_left = << >>
    /\ ladder_left = << >>
    /\ product = QubitOperatorZero
    /\ total = QubitOperatorZero
    /\ calls = 0
    /\ update_set_ = PySet({})
    /\ occupation_set_ = PySet({})
    /\ parity_set_ = PySet({})
    /\ cur_index = -1
    /\ LoopIdle

FlipMode ==
    /\ pc = "idle"
    /\ \E m \in DOMAIN occ :
          LET upd == update_set(enc, m, n_qubits).elems
          IN  /\ occ' = [occ EXCEPT ![m] = 1 - occ[m]]
              /\ qubits' = [j \in DOMAIN qubits |->
                               IF j \in upd THEN 1 - qubits[j] ELSE qubits[j]]
    /\ UNCHANGED <<callVars, loopVars>>

NextSets == FlipMode

SpecSets == InitSets /\ [][NextSets]_vars

\* XOR of the occupations of the modes m with j in update_set(m, n_qubits)
Stored(j) ==
    Cardinality({m \in DOMAIN occ :
        occ[m] = 1 /\ j \in update_set(enc, m, n_qubits).elems}) % 2

RegisterStores == \A j \in DOMAIN qubits : qubits[j] = Stored(j)

\* value read from qubit j; no mode updates a qubit outside the register
Read(j) == IF j \in DOMAIN qubits THEN qubits[j] ELSE 0

\* XOR of the qubits in S
JointParity(S) == Cardinality({j \in S : Read(j) = 1}) % 2

\* XOR of the occupations of modes 0..i
CumulativeParity(i) == Cardinality({m \in 0..i : occ[m] = 1}) % 2

SetsConsistent ==
    RegisterStores =>
        \A i \in DOMAIN occ :
            /\ JointParity(parity_set(enc, i).elems) = CumulativeParity(i)
            /\ JointParity(occupation_set(enc, i).elems) = occ[i]

\* C2: with qubit j storing the XOR of the modes whose Bravyi-Kitaev update
\* set holds j, the qubits of parity_set_bravyi_kitaev(i) XOR to the parity
\* of modes 0..i and those of occupation_set_bravyi_kitaev(i) to the
\* occupation of mode i, for every register size.
C2_BravyiKitaevConsistent == enc = "bk" => SetsConsistent

C2_Witness ==
    /\ enc = "bk"
    /\ n_qubits = 5
    /\ occ = [m \in 0..4 |-> IF m \in {0, 2, 4} THEN 1 ELSE 0]
    /\ RegisterStores
    /\ \E j \in DOMAIN qubits : qubits[j] # occ[j]

\* C3: the same for the parity encoding, where qubit j stores the cumulative
\* parity through mode j.
C3_ParityConsistent == enc = "parity" => SetsConsistent

\* the half of C3 that reads parity_set_parity
ParitySetParityReads ==
    (enc = "parity" /\ RegisterStores) =>
        \A i \in DOMAIN occ :
            /\ qubits[i] = CumulativeParity(i)
            /\ JointParity(parity_set(enc, i).elems) = CumulativeParity(i)

----------------------------------------------------------------------------
\* The Bravyi-Kitaev index-set loops, one iteration per step (SpecLoop).

InitLoop ==
    /\ fn \in {"update", "occupation", "parity"}
    /\ l_index \in 0..MaxLoopArg
    /\ l_n \in IF fn = "update" THEN 0..MaxLoopArg ELSE {0}
    /\ v = 0
    /\ parent = 0
    /\ indices = {}
    /\ iters = 0
    /\ lpc = "entry"
    /\ CallIdle
    /\ SetsIdle

\* update_set_bravyi_kitaev down to its while
EnterUpdate ==
    /\ lpc = "entry"
    /\ fn = "update"
    /\ v' = OneBased(l_index)
    /\ lpc' = "loop"
    /\ UNCHANGED <<fn, l_index, l_n, parent, indices, iters>>
    /\ UNCHANGED <<callVars, setVars>>

\* occupation_set_bravyi_kitaev down to its while
EnterOccupation ==
    /\ lpc = "entry"
    /\ fn = "occupation"
    /\ indices' = {OneBased(l_index) - 1}
    /\ parent' = OccupationParent(OneBased(l_index))
    /\ v' = OccupationStart(OneBased(l_index))
    /\ lpc' = "loop"
    /\ UNCHANGED <<fn, l_index, l_n, iters>>
    /\ UNCHANGED <<callVars, setVars>>

\* parity_set_bravyi_kitaev down to its while
EnterParity ==
    /\ lpc = "entry"
    /\ fn = "parity"
    /\ v' = OneBased(l_index)
    /\ lpc' = "loop"
    /\ UNCHANGED <<fn, l_index, l_n, parent, indices, iters>>
    /\ UNCHANGED <<callVars, setVars>>

LoopCond ==
    IF fn = "update" THEN UpdateCond(v, l_n)
    ELSE IF fn = "occupation" THEN OccupationCond(v, parent)
    ELSE ParityCond(v)

\* one iteration of the running loop
LoopStep ==
    /\ lpc = "loop"
    /\ LoopCond
    /\ iters < MaxIters
    /\ indices' = indices \cup {v - 1}
    /\ v' = IF fn = "update" THEN AddLowestBit(v) ELSE StripLowestBit(v)
    /\ iters' = iters + 1
    /\ UNCHANGED <<fn, l_index, l_n, parent, lpc>>
    /\ UNCHANGED <<callVars, setVars>>

\* the loop condition fails: return indices
LoopReturn ==
    /\ lpc = "loop"
    /\ ~LoopCond
    /\ lpc' = "returned"
    /\ UNCHANGED <<fn, l_index, l_n, v, parent, indices, iters>>
    /\ UNCHANGED <<callVars, setVars>>

NextLoop ==
    \/ EnterUpdate
    \/ EnterOccupation
    \/ EnterParity
    \/ LoopStep
    \/ LoopReturn

\* a started function keeps running: nothing suspends it
SpecLoop == InitLoop /\ [][NextLoop]_vars /\ WF_vars(NextLoop)

IterationBound == iters <= BitLength(Max(l_index + 1, l_n))

NeverPastParent == (fn = "occupation" /\ lpc # "entry") => v >= parent

ReturnedAtParent == (fn = "occupation" /\ lpc = "returned") => v = parent

\* C10: every Bravyi-Kitaev index-set loop terminates; the occupation loop
\* reaches v = parent exactly and never passes below it; no loop runs more
\* iterations than the bit length of max(index + 1, n_qubits).
C10_LoopsTerminate ==
    /\ [](IterationBound /\ NeverPastParent /\ ReturnedAtParent)
    /\ <>(lpc = "returned")

C10_Witness ==
    /\ fn = "occupation"
    /\ l_index = 7
    /\ lpc = "returned"
    /\ iters = 3
    /\ v = parent

\* the stepped loops return what the operators compute
LoopMatchesOperator ==
    lpc = "returned" =>
        indices = IF fn = "update" THEN update_set_bravyi_kitaev(l_index, l_n)
                  ELSE IF fn = "occupation"
                       THEN occupation_set_bravyi_kitaev(l_index)
                  ELSE parity_set_bravyi_kitaev(l_index)

====
